---- MODULE Spec2Model ----
(***************************************************************************)
(* lws-minimal-secure-streams-policy2c: the in-memory secure-streams       *)
(* policy graph is walked twice and emitted as static C structs.           *)
(*                                                                         *)
(* Strings are sequences of one-character strings, so that purify_csymbol  *)
(* and the symbols built from its results are computed character by        *)
(* character.  The emitted text is the sequence `out` of declarations in   *)
(* textual order; each declaration carries the address-of references its   *)
(* initializer holds.                                                      *)
(***************************************************************************)
EXTENDS Integers, Sequences, FiniteSets, TLC

VARIABLES
    pols,       \* the policy list lws_ss_policy_get() returns (parser output)
    stores,     \* the trust store objects the nodes point at
    auths,      \* the auth list lws_ss_auth_get() returns (ids, list order)
    pc,         \* position of main()
    pi,         \* pol: index of the current node in pols
    mdi,        \* md: index of the current metadata record of the node
    n,          \* n: slot of the trust store's x.509 stack being looked at
    ai,         \* auth: index of the current auth record
    rbomap,     \* retry / backoff object map (front-pushed list)
    trustmap,   \* trust store map
    certmap,    \* x.509 cert map
    unique_rbo, \* next retry handle
    est,        \* running footprint estimate
    prev,       \* prev[128]
    lastpol,    \* lastpol (0 = NULL)
    out,        \* stdout: the declarations emitted so far, in textual order
    context,    \* "none" | "live" | "destroyed"
    bad,        \* static int bad = 1
    exitcode,   \* Running while main() runs, then the process status
    fatal,      \* which fatal condition ended the run ("none" if none did)
    pin,        \* purify_csymbol: in
    pcap,       \* purify_csymbol: templen
    ptemp,      \* purify_csymbol: the bytes written to temp, in order
    ppc         \* purify_csymbol: position

vars == <<pols, stores, auths, pc, pi, mdi, n, ai, rbomap, trustmap, certmap,
          unique_rbo, est, prev, lastpol, out, context, bad, exitcode, fatal,
          pin, pcap, ptemp, ppc>>

mainvars == <<pols, stores, auths, pc, pi, mdi, n, ai, rbomap, trustmap,
              certmap, unique_rbo, est, prev, lastpol, out, context, bad,
              exitcode, fatal>>

purifyvars == <<pin, pcap, ptemp, ppc>>

----------------------------------------------------------------------------
(* Bounds of the model *)

MaxPol == 2         \* longest policy list of the sharing / protocol slices
MaxMd == 3          \* longest metadata chain
MaxCerts == 3       \* most slots of a trust store's x.509 stack
MaxName == 3        \* longest name handed to purify_csymbol on its own
MaxCap == 3         \* largest templen handed to purify_csymbol on its own

(* Program constants *)

BufLen == 64        \* char buf[64], buf1[64]
CurrLen == 128      \* char prev[128], curr[128]
SizeofU32 == 4      \* sizeof(uint32_t)
SizeofMetadata == 32    \* sizeof(lws_ss_metadata_t)
SizeofRetryBo == 24     \* sizeof(lws_retry_bo_t)
SizeofX509 == 40        \* sizeof(lws_ss_x509_t)
SizeofTrustStore == 80  \* sizeof(lws_ss_trust_store_t)
SizeofPolicy == 200     \* sizeof(*pol)
last_offset == 0        \* static size_t last_offset, never assigned
Running == -1           \* main() has not returned
ExitAbort == 134        \* status of a process ended by abort() (128 + SIGABRT)

LWSSSP_H1 == 0
LWSSSP_H2 == 1
LWSSSP_WS == 2
LWSSSP_MQTT == 3
LWSSSP_UNKNOWN == 4     \* any tag the switch has no case for

----------------------------------------------------------------------------
(* Strings *)

Lower == {"a","b","c","d","e","f","g","h","i","j","k","l","m",
          "n","o","p","q","r","s","t","u","v","w","x","y","z"}
Upper == {"A","B","C","D","E","F","G","H","I","J","K","L","M",
          "N","O","P","Q","R","S","T","U","V","W","X","Y","Z"}
Digits == {"0","1","2","3","4","5","6","7","8","9"}

Digit == <<"0","1","2","3","4","5","6","7","8","9">>

RECURSIVE Dec(_)
\* printf("%zu")
Dec(k) == IF k < 10 THEN <<Digit[k + 1]>>
          ELSE Dec(k \div 10) \o <<Digit[(k % 10) + 1]>>

Take(s, k) == IF Len(s) <= k THEN s ELSE SubSeq(s, 1, k)

Rep(c, k) == [i \in 1..k |-> c]

SeqsUpTo(S, k) == UNION {[1..m -> S] : m \in 0..k}

\* lws_snprintf(curr, sizeof(curr), ...): at most sizeof(curr) - 1 characters
Snprintf(s) == Take(s, CurrLen - 1)

\* the test without its '0'..'9' range
MutKeepNoDigits(c) == c \in Lower \/ c \in Upper

\* the test of purify_csymbol's loop body
KeepChar(c) == c \in Lower \/ c \in Upper \/ c \in Digits

PurifyChar(c) == IF KeepChar(c) THEN c ELSE "_"

\* assert (strlen(in) <= templen)
MutAssertOffByOne(in, templen) == Len(in) <= templen

\* assert (strlen(in) < templen)
PurifyAssert(in, templen) == Len(in) < templen

\* the string purify_csymbol returns when its assertion holds
Purify(in) == [i \in 1..Len(in) |-> PurifyChar(in[i])]

\* purify_csymbol(in, buf, sizeof(buf)) ends the process
Overflows(in) == ~PurifyAssert(in, BufLen)

----------------------------------------------------------------------------
(* The objects of the policy graph that the slices do not vary *)

\* lws_retry_bo_t objects by identity; 1 and 2 are distinct objects with the
\* same content
RetryObj == [r \in 1..3 |->
               [retry_ms_table_count |-> IF r = 3 THEN 0 ELSE 2]]

\* lws_ss_x509_t objects by identity
CertObj == <<[vhost_name |-> <<"c">>,      ca_der_len |-> 2],
             [vhost_name |-> <<"c","-">>,  ca_der_len |-> 1],
             [vhost_name |-> <<"c","_">>,  ca_der_len |-> 0]>>

\* lws_ss_auth_t objects by identity; 3 is an object that is on no auth list
AuthObj == <<[name |-> <<"u">>], [name |-> <<"u","-">>], [name |-> <<"v">>]>>

Long63 == Rep("x", BufLen - 1)
Long64 == Rep("x", BufLen)

DefaultStores == <<[name |-> <<"t">>,     ssx509 |-> <<1, 2>>],
                   [name |-> <<"t","-">>, ssx509 |-> <<2>>]>>

Node(st, md, r, ts, au, proto) ==
    [streamtype |-> st, metadata |-> md, retry_bo |-> r, store |-> ts,
     auth |-> au, protocol |-> proto]

\* stream type names of the sharing and protocol slices: s1, s2, ...
SName(k) == <<"s">> \o Dec(k)


StreamNames == {<<"a">>, <<"a","-">>, <<"a","_">>, Long63, Long64}
MdNames == {<<"b">>, <<"-","b">>, <<"_","b">>, Long63}

----------------------------------------------------------------------------
(* The emitted text *)

\* one address-of reference inside an initializer: .field = &sym
Ref(field, sym) == [field |-> field, sym |-> sym]

\* one declaration: its category, its symbol, the source object it was
\* emitted for, the number of array elements printed (arrays only), the
\* references of its initializer in textual order, and whether the
\* initializer was closed
Item(cat, sym, src, len, refs, complete) ==
    [cat |-> cat, sym |-> sym, src |-> src, len |-> len, refs |-> refs,
     complete |-> complete]

P_md == <<"_","m","d","_">>
P_rbo_bo == <<"_","r","b","o","_","b","o","_">>
P_rbo == <<"_","r","b","o","_">>
P_der == <<"_","s","s","_","d","e","r","_">>
P_x509 == <<"_","s","s","_","x","5","0","9","_">>
P_ts == <<"_","s","s","_","t","s","_">>
P_ssau == <<"_","s","s","a","u","_">>
P_ssp == <<"_","s","s","p","_">>
P_entry == <<"_","s","s","_","s","t","a","t","i","c","_","p","o","l","i","c",
             "y","_","e","n","t","r","y">>

----------------------------------------------------------------------------
(* Identity-interning maps: struct aggstr lists, newest entry first *)

\* a walk that compares nothing and always ends with a == NULL
MutLookupNeverFinds(map, orig) == 0

\* the while (a) { if (a->orig == ...) break; a = a->next; } walks: the
\* position of the first entry for orig, 0 when the walk ends with a == NULL
Lookup(map, orig) ==
    IF \E i \in 1..Len(map) : map[i].orig = orig
    THEN CHOOSE i \in 1..Len(map) :
            /\ map[i].orig = orig
            /\ \A j \in 1..(i - 1) : map[j].orig # orig
    ELSE 0

\* a->next = map; a->offset = offset; a->orig = orig; map = a
Push(map, orig, offset) == <<[orig |-> orig, offset |-> offset]>> \o map

----------------------------------------------------------------------------
(* Initial states *)

InitRun ==
    /\ pc = "create"
    /\ pi = 1 /\ mdi = 1 /\ n = 1 /\ ai = 1
    /\ rbomap = <<>> /\ trustmap = <<>> /\ certmap = <<>>
    /\ unique_rbo = 0
    /\ est = 0
    /\ prev = <<>>
    /\ lastpol = 0
    /\ out = <<>>
    /\ context = "none"
    /\ bad = 1
    /\ exitcode = Running
    /\ fatal = "none"

PurifyIdle ==
    /\ pin = <<>> /\ pcap = 0 /\ ptemp = <<>> /\ ppc = "idle"

\* policy lists whose nodes share, or do not share, retry objects and trust
\* stores
InitSharing ==
    \E k \in 0..MaxPol :
      \E rs \in [1..k -> 0..3], ts \in [1..k -> 0..2] :
        /\ pols = [i \in 1..k |->
                     Node(SName(i), IF i = 1 THEN <<<<"m">>>> ELSE <<>>,
                          rs[i], ts[i], IF i = 1 THEN 1 ELSE 0, LWSSSP_H1)]
        /\ stores = DefaultStores
        /\ auths = <<1>>

\* trust stores over every x.509 stack; slots below count hold certificates
InitCerts ==
    \E stack \in SeqsUpTo(1..3, MaxCerts), second \in 0..2 :
        /\ pols = <<Node(SName(1), <<>>, 1, 1, 0, LWSSSP_H2)>> \o
                  (IF second = 0 THEN <<>>
                   ELSE <<Node(SName(2), <<>>, 0, second, 0, LWSSSP_MQTT)>>)
        /\ stores = [DefaultStores EXCEPT ![1].ssx509 = stack]
        /\ auths = <<>>

\* stream type and metadata names, short and long, plain and not
InitNames ==
    \E st \in StreamNames, md \in SeqsUpTo(MdNames, MaxMd),
       second \in BOOLEAN :
        /\ pols = <<Node(st, md, 0, 0, 0, LWSSSP_WS)>> \o
                  (IF second
                   THEN <<Node(<<"a","_">>, <<<<"b">>>>, 0, 0, 0, LWSSSP_H1)>>
                   ELSE <<>>)
        /\ stores = DefaultStores
        /\ auths = <<>>

\* protocol tags and auth references; pol->auth and the auth list both come
\* from the parser and main() relates them by name only, so a node may
\* carry a record (3) that is not on the list
InitProtoAuth ==
    \E k \in 0..MaxPol :
      \E protos \in [1..k -> LWSSSP_H1..LWSSSP_UNKNOWN],
         aus \in [1..k -> 0..3],
         al \in {<<>>, <<1>>, <<1, 2>>} :
        /\ pols = [i \in 1..k |->
                     Node(SName(i), <<>>, IF i = 1 THEN 1 ELSE 0, 0, aus[i],
                          protos[i])]
        /\ stores = DefaultStores
        /\ auths = al

Init ==
    /\ InitRun
    /\ PurifyIdle
    /\ \/ InitSharing
       \/ InitCerts
       \/ InitNames
       \/ InitProtoAuth

----------------------------------------------------------------------------
(* main() *)

pol == pols[pi]

\* abort() from purify_csymbol's assertion
Abort ==
    /\ pc' = "aborted"
    /\ exitcode' = ExitAbort
    /\ fatal' = "purify"

\* goto bail
GotoBail(why) ==
    /\ pc' = "bail"
    /\ fatal' = why

CreateContextOk ==
    /\ UNCHANGED purifyvars
    /\ pc = "create"
    /\ context' = "live"
    /\ pc' = "ingest"
    /\ UNCHANGED <<pols, stores, auths, pi, mdi, n, ai, rbomap, trustmap,
                   certmap, unique_rbo, est, prev, lastpol, out, bad,
                   exitcode, fatal>>

\* lws_create_context() returns NULL: return 1
CreateContextFail ==
    /\ UNCHANGED purifyvars
    /\ pc = "create"
    /\ pc' = "exited"
    /\ exitcode' = 1
    /\ fatal' = "setup"
    /\ UNCHANGED <<pols, stores, auths, pi, mdi, n, ai, rbomap, trustmap,
                   certmap, unique_rbo, est, prev, lastpol, out, context,
                   bad>>

\* the read / lws_ss_policy_parse loop runs to end of input;
\* pol = lws_ss_policy_get(context)
IngestOk ==
    /\ UNCHANGED purifyvars
    /\ pc = "ingest"
    /\ pc' = "p1_md"
    /\ pi' = 1
    /\ mdi' = 1
    /\ UNCHANGED <<pols, stores, auths, n, ai, rbomap, trustmap, certmap,
                   unique_rbo, est, prev, lastpol, out, context, bad,
                   exitcode, fatal>>

\* some chunk makes lws_ss_policy_parse fail
IngestFail ==
    /\ UNCHANGED purifyvars
    /\ pc = "ingest"
    /\ GotoBail("parse")
    /\ UNCHANGED <<pols, stores, auths, pi, mdi, n, ai, rbomap, trustmap,
                   certmap, unique_rbo, est, prev, lastpol, out, context,
                   bad, exitcode>>

\* curr of the metadata loop
MdSym(st, name) == Snprintf(P_md \o Purify(st) \o <<"_">> \o Purify(name))

\* one turn of while (md)
Pass1Metadata ==
    /\ UNCHANGED purifyvars
    /\ pc = "p1_md"
    /\ pi <= Len(pols)
    /\ mdi <= Len(pol.metadata)
    /\ LET name == pol.metadata[mdi]
           curr == MdSym(pol.streamtype, name)
           pv   == IF mdi = 1 THEN <<>> ELSE prev
       IN  /\ est' = est + SizeofMetadata
           /\ IF Overflows(pol.streamtype) \/ Overflows(name)
              THEN /\ Abort
                   /\ UNCHANGED <<mdi, prev, out>>
              ELSE /\ out' = Append(out,
                        Item("md", curr, <<pi, mdi>>, 0,
                             IF pv # <<>> THEN <<Ref("next", pv)>> ELSE <<>>,
                             TRUE))
                   /\ prev' = curr
                   /\ mdi' = mdi + 1
                   /\ UNCHANGED <<pc, exitcode, fatal>>
    /\ UNCHANGED <<pols, stores, auths, pi, n, ai, rbomap, trustmap, certmap,
                   unique_rbo, lastpol, context, bad>>

\* md == NULL
Pass1MetadataEnd ==
    /\ UNCHANGED purifyvars
    /\ pc = "p1_md"
    /\ pi <= Len(pols)
    /\ mdi > Len(pol.metadata)
    /\ pc' = "p1_rbo"
    /\ UNCHANGED <<pols, stores, auths, pi, mdi, n, ai, rbomap, trustmap,
                   certmap, unique_rbo, est, prev, lastpol, out, context,
                   bad, exitcode, fatal>>

\* what a new retry object adds to est
RetryEst(r) ==
    SizeofU32 * RetryObj[r].retry_ms_table_count + SizeofRetryBo

\* if (pol->retry_bo) { ... }
Pass1Retry ==
    /\ UNCHANGED purifyvars
    /\ pc = "p1_rbo"
    /\ LET r == pol.retry_bo
       IN  IF r = 0 \/ Lookup(rbomap, r) # 0
           THEN /\ pc' = "p1_ts"
                /\ UNCHANGED <<rbomap, unique_rbo, out, est, fatal>>
           ELSE \E mallocOk \in BOOLEAN :
                  IF ~mallocOk
                  THEN /\ GotoBail("alloc")
                       /\ UNCHANGED <<rbomap, unique_rbo, out, est>>
                  ELSE /\ rbomap' = Push(rbomap, r, unique_rbo)
                       /\ unique_rbo' = unique_rbo + 1
                       /\ out' = out \o
                            <<Item("rbo_bo", P_rbo_bo \o Dec(unique_rbo),
                                   <<r>>, RetryObj[r].retry_ms_table_count,
                                   <<>>, TRUE),
                              Item("rbo", P_rbo \o Dec(unique_rbo), <<r>>, 0,
                                   <<Ref("retry_ms_table",
                                         P_rbo_bo \o Dec(unique_rbo))>>,
                                   TRUE)>>
                       /\ est' = est + RetryEst(r)
                       /\ pc' = "p1_ts"
                       /\ UNCHANGED fatal
    /\ UNCHANGED <<pols, stores, auths, pi, mdi, n, ai, trustmap, certmap,
                   prev, lastpol, context, bad, exitcode>>

\* pol = pol->next at the end of the first walk's body
NextNode ==
    /\ pi' = pi + 1
    /\ mdi' = 1
    /\ pc' = "p1_md"

\* if (pol->trust.store) { ... } up to the walk of the x.509 stack
Pass1Trust ==
    /\ UNCHANGED purifyvars
    /\ pc = "p1_ts"
    /\ LET t == pol.store
       IN  IF t = 0 \/ Lookup(trustmap, t) # 0
           THEN /\ NextNode
                /\ UNCHANGED <<trustmap, n, fatal>>
           ELSE \E mallocOk \in BOOLEAN :
                  IF ~mallocOk
                  THEN /\ GotoBail("alloc")
                       /\ UNCHANGED <<trustmap, n, pi, mdi>>
                  ELSE /\ trustmap' = Push(trustmap, t, 0)
                       /\ n' = 1
                       /\ pc' = "p1_cert"
                       /\ UNCHANGED <<pi, mdi, fatal>>
    /\ UNCHANGED <<pols, stores, auths, ai, rbomap, certmap, unique_rbo, est,
                   prev, lastpol, out, context, bad, exitcode>>

\* est += sizeof(lws_ss_x509_t), the DER bytes forgotten
MutCertEstNoDer(c) == SizeofX509

\* what a new certificate adds to est
CertEst(c) == SizeofX509 + CertObj[c].ca_der_len

\* one turn of for (n = 0; n < pol->trust.store->count; n++)
Pass1Cert ==
    /\ UNCHANGED purifyvars
    /\ pc = "p1_cert"
    /\ n <= Len(stores[pol.store].ssx509)
    /\ LET c == stores[pol.store].ssx509[n]
           vhost == CertObj[c].vhost_name
       IN  IF Lookup(certmap, c) # 0
           THEN /\ n' = n + 1
                /\ UNCHANGED <<certmap, out, est, pc, exitcode, fatal>>
           ELSE \E mallocOk \in BOOLEAN :
                  IF ~mallocOk
                  THEN /\ GotoBail("alloc")
                       /\ UNCHANGED <<certmap, out, est, n, exitcode>>
                  ELSE /\ certmap' = Push(certmap, c, 0)
                       /\ IF Overflows(vhost)
                          THEN /\ Abort
                               /\ UNCHANGED <<out, est, n>>
                          ELSE /\ out' = out \o
                                    <<Item("der", P_der \o Purify(vhost),
                                           <<c>>, CertObj[c].ca_der_len,
                                           <<>>, TRUE),
                                      Item("x509", P_x509 \o Purify(vhost),
                                           <<c>>, 0,
                                           <<Ref("ca_der",
                                                 P_der \o Purify(vhost))>>,
                                           TRUE)>>
                               /\ est' = est + CertEst(c)
                               /\ n' = n + 1
                               /\ UNCHANGED <<pc, exitcode, fatal>>
    /\ UNCHANGED <<pols, stores, auths, pi, mdi, ai, rbomap, trustmap,
                   unique_rbo, prev, lastpol, context, bad>>

\* for (n = count - 1; n >= 0; n--) printf("&_ss_x509_%s", ...->vhost_name)
StackRefs(stack) ==
    [i \in 1..Len(stack) |->
        Ref("ssx509",
            P_x509 \o CertObj[stack[Len(stack) + 1 - i]].vhost_name)]

\* the trust store struct, after the walk of its x.509 stack
Pass1TrustEmit ==
    /\ UNCHANGED purifyvars
    /\ pc = "p1_cert"
    /\ n > Len(stores[pol.store].ssx509)
    /\ LET t == pol.store
       IN  IF Overflows(stores[t].name)
           THEN /\ Abort
                /\ UNCHANGED <<out, est, pi, mdi>>
           ELSE /\ out' = Append(out,
                     Item("ts", P_ts \o Purify(stores[t].name), <<t>>, 0,
                          StackRefs(stores[t].ssx509), TRUE))
                /\ est' = est + SizeofTrustStore
                /\ NextNode
                /\ UNCHANGED <<exitcode, fatal>>
    /\ UNCHANGED <<pols, stores, auths, n, ai, rbomap, trustmap, certmap,
                   unique_rbo, prev, lastpol, context, bad>>

\* pol == NULL: auth = lws_ss_auth_get(context); prev[0] = '\0'
Pass1End ==
    /\ UNCHANGED purifyvars
    /\ pc = "p1_md"
    /\ pi > Len(pols)
    /\ pc' = "auth"
    /\ ai' = 1
    /\ prev' = <<>>
    /\ UNCHANGED <<pols, stores, auths, pi, mdi, n, rbomap, trustmap, certmap,
                   unique_rbo, est, lastpol, out, context, bad, exitcode,
                   fatal>>


\* one turn of while (auth)
AuthRecord ==
    /\ UNCHANGED purifyvars
    /\ pc = "auth"
    /\ ai <= Len(auths)
    /\ LET name == AuthObj[auths[ai]].name
           curr == Snprintf(P_ssau \o Purify(name))
       IN  IF Overflows(name)
           THEN /\ Abort
                /\ UNCHANGED <<out, prev, ai>>
           ELSE /\ out' = Append(out,
                     Item("au", curr, <<auths[ai]>>, 0,
                          IF prev # <<>> THEN <<Ref("next", prev)>>
                          ELSE <<>>,
                          TRUE))
                /\ prev' = curr
                /\ ai' = ai + 1
                /\ UNCHANGED <<pc, exitcode, fatal>>
    /\ UNCHANGED <<pols, stores, auths, pi, mdi, n, rbomap, trustmap, certmap,
                   unique_rbo, est, lastpol, context, bad>>

\* auth == NULL: pol = lws_ss_policy_get(context); prev[0] = '\0'
AuthEnd ==
    /\ UNCHANGED purifyvars
    /\ pc = "auth"
    /\ ai > Len(auths)
    /\ pc' = "p2"
    /\ pi' = 1
    /\ prev' = <<>>
    /\ UNCHANGED <<pols, stores, auths, mdi, n, ai, rbomap, trustmap, certmap,
                   unique_rbo, est, lastpol, out, context, bad, exitcode,
                   fatal>>

\* a switch whose default case does not bail
MutSwitchAcceptsAll(tag) == TRUE

\* the cases of switch (pol->protocol)
KnownProtocol(tag) ==
    tag \in {LWSSSP_H1, LWSSSP_H2, LWSSSP_WS, LWSSSP_MQTT}

\* .metadata naming the head pol->metadata instead of the tail
MutMetadataRefHead(p) ==
    IF p.metadata = <<>> THEN <<>>
    ELSE <<Ref("metadata",
               P_md \o Purify(p.streamtype) \o <<"_">> \o
               Purify(p.metadata[1]))>>

\* last = the tail of pol->metadata; .metadata = (void *)&_md_%s_%s
MetadataRef(p) ==
    IF p.metadata = <<>> THEN <<>>
    ELSE <<Ref("metadata",
               P_md \o Purify(p.streamtype) \o <<"_">> \o
               Purify(p.metadata[Len(p.metadata)]))>>

\* .auth printed only for a record found on the auth list
MutAuthRefResolved(p) ==
    IF p.auth = 0 \/ ~(\E i \in 1..Len(auths) : auths[i] = p.auth) THEN <<>>
    ELSE <<Ref("auth", P_ssau \o Purify(AuthObj[p.auth].name))>>

\* if (pol->auth) printf(".auth = &_ssau_%s", purify(pol->auth->name))
AuthRef(p) ==
    IF p.auth = 0 THEN <<>>
    ELSE <<Ref("auth", P_ssau \o Purify(AuthObj[p.auth].name))>>

\* if (pol->trust.store) printf(".trust = {.store = &_ss_ts_%s}", ...)
TrustRef(p) ==
    IF p.store = 0 THEN <<>>
    ELSE <<Ref("trust", P_ts \o Purify(stores[p.store].name))>>

\* printf(".retry_bo = &_rbo_%zu", a->offset), a the entry the walk found
RetryRef(p) ==
    IF p.retry_bo = 0 \/ Lookup(rbomap, p.retry_bo) = 0 THEN <<>>
    ELSE <<Ref("retry_bo",
               P_rbo \o Dec(rbomap[Lookup(rbomap, p.retry_bo)].offset))>>

\* one turn of the second while (pol)
Pass2Node ==
    /\ UNCHANGED purifyvars
    /\ pc = "p2"
    /\ pi <= Len(pols)
    /\ LET p    == pol
           curr == Snprintf(P_ssp \o Purify(p.streamtype))
           next == IF prev # <<>> THEN <<Ref("next", prev)>> ELSE <<>>
           toAuth == next \o AuthRef(p)
           toMd   == toAuth \o MetadataRef(p)
           toRbo  == toMd \o RetryRef(p)
           all    == toRbo \o TrustRef(p)
           part(refs) == Append(out, Item("ssp", curr, <<pi>>, 0, refs, FALSE))
       IN  /\ est' = est + SizeofPolicy
           /\ IF Overflows(p.streamtype)
              THEN /\ Abort
                   /\ UNCHANGED <<out, prev, lastpol, pi>>
              ELSE IF p.auth # 0 /\ Overflows(AuthObj[p.auth].name)
              THEN /\ Abort
                   /\ out' = part(next)
                   /\ UNCHANGED <<prev, lastpol, pi>>
              ELSE IF /\ p.metadata # <<>>
                      /\ Overflows(p.metadata[Len(p.metadata)])
              THEN /\ Abort
                   /\ out' = part(toAuth)
                   /\ UNCHANGED <<prev, lastpol, pi>>
              ELSE IF ~KnownProtocol(p.protocol)
              THEN /\ GotoBail("proto")
                   /\ out' = part(toMd)
                   /\ UNCHANGED <<prev, lastpol, pi, exitcode>>
              ELSE IF p.retry_bo # 0 /\ Lookup(rbomap, p.retry_bo) = 0
              THEN /\ GotoBail("unresolved")
                   /\ out' = part(toMd)
                   /\ UNCHANGED <<prev, lastpol, pi, exitcode>>
              ELSE IF p.store # 0 /\ Overflows(stores[p.store].name)
              THEN /\ Abort
                   /\ out' = part(toRbo)
                   /\ UNCHANGED <<prev, lastpol, pi>>
              ELSE /\ out' = Append(out,
                        Item("ssp", curr, <<pi>>, 0, all, TRUE))
                   /\ prev' = curr
                   /\ lastpol' = pi
                   /\ pi' = pi + 1
                   /\ UNCHANGED <<pc, exitcode, fatal>>
    /\ UNCHANGED <<pols, stores, auths, mdi, n, ai, rbomap, trustmap, certmap,
                   unique_rbo, context, bad>>

\* pol == NULL: the alias, est += last_offset, parse_abandon, bad = 0
Pass2End ==
    /\ UNCHANGED purifyvars
    /\ pc = "p2"
    /\ pi > Len(pols)
    /\ IF lastpol # 0 /\ Overflows(pols[lastpol].streamtype)
       THEN /\ Abort
            /\ UNCHANGED <<out, est, bad>>
       ELSE /\ out' = IF lastpol = 0 THEN out
                      ELSE Append(out,
                             Item("define", P_entry, <<lastpol>>, 0,
                                  <<Ref("alias",
                                        P_ssp \o
                                        Purify(pols[lastpol].streamtype))>>,
                                  TRUE))
            /\ est' = est + last_offset
            /\ bad' = 0
            /\ pc' = "bail"
            /\ UNCHANGED <<exitcode, fatal>>
    /\ UNCHANGED <<pols, stores, auths, pi, mdi, n, ai, rbomap, trustmap,
                   certmap, unique_rbo, prev, lastpol, context>>

\* return !bad
MutBailStatusInverted == 1 - bad

\* return bad
BailStatus == bad

\* bail: lws_context_destroy(context); return bad
Bail ==
    /\ UNCHANGED purifyvars
    /\ pc = "bail"
    /\ context' = "destroyed"
    /\ exitcode' = BailStatus
    /\ pc' = "exited"
    /\ UNCHANGED <<pols, stores, auths, pi, mdi, n, ai, rbomap, trustmap,
                   certmap, unique_rbo, est, prev, lastpol, out, bad, fatal>>

Next ==
    \/ CreateContextOk
    \/ CreateContextFail
    \/ IngestOk
    \/ IngestFail
    \/ Pass1Metadata
    \/ Pass1MetadataEnd
    \/ Pass1Retry
    \/ Pass1Trust
    \/ Pass1Cert
    \/ Pass1TrustEmit
    \/ Pass1End
    \/ AuthRecord
    \/ AuthEnd
    \/ Pass2Node
    \/ Pass2End
    \/ Bail

Spec == Init /\ [][Next]_vars


----------------------------------------------------------------------------
(* purify_csymbol on its own, statement by statement *)

PurifyAlphabet == {"a", "Z", "7", "-", "_"}

InitPurify ==
    /\ pols = <<>> /\ stores = DefaultStores /\ auths = <<>>
    /\ pc = "idle"
    /\ pi = 1 /\ mdi = 1 /\ n = 1 /\ ai = 1
    /\ rbomap = <<>> /\ trustmap = <<>> /\ certmap = <<>>
    /\ unique_rbo = 0 /\ est = 0 /\ prev = <<>> /\ lastpol = 0
    /\ out = <<>> /\ context = "none" /\ bad = 1
    /\ exitcode = Running /\ fatal = "none"
    /\ pin \in SeqsUpTo(PurifyAlphabet, MaxName)
    /\ pcap \in 1..MaxCap
    /\ ptemp = <<>>
    /\ ppc = "start"

\* assert (strlen(in) < templen)
PurifyCheck ==
    /\ ppc = "start"
    /\ ppc' = IF PurifyAssert(pin, pcap) THEN "loop" ELSE "aborted"
    /\ UNCHANGED <<pin, pcap, ptemp>>
    /\ UNCHANGED mainvars

\* one turn of while (*in): *temp++ = ...
PurifyStep ==
    /\ ppc = "loop"
    /\ Len(ptemp) < Len(pin)
    /\ ptemp' = Append(ptemp, PurifyChar(pin[Len(ptemp) + 1]))
    /\ UNCHANGED <<pin, pcap, ppc>>
    /\ UNCHANGED mainvars

\* *temp = '\0'; return otemp
PurifyTerminate ==
    /\ ppc = "loop"
    /\ Len(ptemp) = Len(pin)
    /\ ptemp' = Append(ptemp, "NUL")
    /\ ppc' = "done"
    /\ UNCHANGED <<pin, pcap>>
    /\ UNCHANGED mainvars

NextPurify ==
    \/ PurifyCheck
    \/ PurifyStep
    \/ PurifyTerminate

SpecPurify == InitPurify /\ [][NextPurify]_vars


----------------------------------------------------------------------------
(* Vocabulary of the properties *)

Decls(cat) == {i \in 1..Len(out) : out[i].cat = cat}

RefsOf(i, field) ==
    {k \in 1..Len(out[i].refs) : out[i].refs[k].field = field}

\* a declaration of category cat with symbol sym precedes position i
DeclaredBefore(i, cat, sym) ==
    \E j \in 1..(i - 1) : out[j].cat = cat /\ out[j].sym = sym

\* the retry identities carried by the first k nodes
RetryIds(k) == {pols[i].retry_bo : i \in 1..k} \ {0}

\* the handle given to identity r at its first encounter: the number of
\* distinct identities met before it
FirstHandle(r) ==
    LET f == CHOOSE i \in 1..Len(pols) :
                /\ pols[i].retry_bo = r
                /\ \A j \in 1..(i - 1) : pols[j].retry_bo # r
    IN  Cardinality(RetryIds(f - 1))

\* the nodes whose retry step of the first walk is over
RetryStepsDone ==
    CASE pc \in {"create", "ingest"} -> 0
      [] pc \in {"p1_md", "p1_rbo"} -> pi - 1
      [] pc \in {"p1_ts", "p1_cert"} -> pi
      [] OTHER -> Len(pols)

FirstWalkPosition == pc \in {"create", "ingest", "p1_md", "p1_rbo", "p1_ts",
                             "p1_cert"}

FirstWalkOver ==
    \/ pc \in {"auth", "p2"}
    \/ pc \in {"bail", "exited"} /\ fatal \in {"none", "proto", "unresolved"}

Completed == pc = "exited" /\ exitcode = 0

\* a name with every character outside [A-Za-z0-9] replaced by '_'
Plain(name) ==
    [i \in 1..Len(name) |->
        IF name[i] \in (Lower \cup Upper \cup Digits) THEN name[i] ELSE "_"]

UnknownTag(tag) ==
    tag \notin {LWSSSP_H1, LWSSSP_H2, LWSSSP_WS, LWSSSP_MQTT}

----------------------------------------------------------------------------
(* C1 *)

\* C1: retry/backoff objects are interned by identity: the map never holds
\* an identity twice, the retry-table emissions (array + struct) are as many
\* as the distinct identities of the nodes the first walk has handled, and
\* every policy struct of a node that carries an identity references the one
\* handle that identity got at its first encounter, declared earlier.
C1_RetryInterning ==
    /\ \A i, j \in 1..Len(rbomap) :
          i # j => rbomap[i].orig # rbomap[j].orig
    /\ Len(rbomap) = unique_rbo
    /\ Cardinality(Decls("rbo")) = unique_rbo
    /\ Cardinality(Decls("rbo_bo")) = unique_rbo
    /\ (FirstWalkPosition \/ FirstWalkOver) =>
          Cardinality(Decls("rbo")) = Cardinality(RetryIds(RetryStepsDone))
    /\ \A i \in Decls("ssp") :
          out[i].complete =>
            LET r == pols[out[i].src[1]].retry_bo
            IN  IF r = 0 THEN RefsOf(i, "retry_bo") = {}
                ELSE /\ Cardinality(RefsOf(i, "retry_bo")) = 1
                     /\ \A k \in RefsOf(i, "retry_bo") :
                          /\ out[i].refs[k].sym = P_rbo \o Dec(FirstHandle(r))
                          /\ \E j \in 1..(i - 1) :
                                /\ out[j].cat = "rbo"
                                /\ out[j].src = <<r>>
                                /\ out[j].sym = out[i].refs[k].sym

\* two nodes share one retry object: one emission, two references to it
C1_Witness ==
    /\ Completed
    /\ Len(pols) = 2
    /\ pols[1].retry_bo # 0
    /\ pols[1].retry_bo = pols[2].retry_bo
    /\ Cardinality(Decls("rbo")) = 1
    /\ Cardinality({i \in Decls("ssp") :
                      \E k \in RefsOf(i, "retry_bo") :
                         out[i].refs[k].sym = P_rbo \o <<"0">>}) = 2

----------------------------------------------------------------------------
(* C2 *)

\* C2: every address-of reference to a shared object (.retry_bo to a retry
\* struct, .trust to a trust-store struct, a trust store's .ssx509 entry to
\* a certificate struct) names a symbol declared textually earlier.
C2_RefsDeclaredEarlier ==
    \A i \in 1..Len(out) :
      \A k \in 1..Len(out[i].refs) :
        LET ref == out[i].refs[k]
        IN  /\ ref.field = "retry_bo" => DeclaredBefore(i, "rbo", ref.sym)
            /\ ref.field = "trust" => DeclaredBefore(i, "ts", ref.sym)
            /\ ref.field = "ssx509" => DeclaredBefore(i, "x509", ref.sym)

----------------------------------------------------------------------------
(* C3 *)

\* C3 as stated: a node with an unrecognized protocol tag gives a non-zero
\* exit and no policy struct text for that node or any node after it.
C3_NoStructTextForUnknown ==
    \A k \in 1..Len(pols) :
      UnknownTag(pols[k].protocol) =>
        /\ exitcode # 0
        /\ \A i \in Decls("ssp") : out[i].src[1] < k

\* C3 amended: a node with an unrecognized protocol tag gives a non-zero
\* exit; the struct of that node is opened but never closed and is the last
\* text emitted, and no struct is emitted for any node after it.
C3_UnknownProtocolStops ==
    \A k \in 1..Len(pols) :
      UnknownTag(pols[k].protocol) =>
        /\ exitcode # 0
        /\ \A i \in Decls("ssp") :
              /\ out[i].src[1] <= k
              /\ out[i].src[1] = k => ~out[i].complete /\ i = Len(out)
        /\ Decls("define") = {}

C3_Witness ==
    /\ pc = "exited"
    /\ fatal = "proto"
    /\ exitcode = 1
    /\ Len(pols) = 2
    /\ UnknownTag(pols[1].protocol)
    /\ out # <<>>
    /\ out[Len(out)].cat = "ssp"
    /\ out[Len(out)].src = <<1>>
    /\ ~out[Len(out)].complete

----------------------------------------------------------------------------
(* C4 *)

RECURSIVE WalkFrom(_, _)
\* the source records visited by following .next from the declaration named
\* sym, for at most fuel steps
WalkFrom(sym, fuel) ==
    IF fuel = 0 \/ ~(\E i \in 1..Len(out) : out[i].sym = sym) THEN <<>>
    ELSE LET i == CHOOSE j \in 1..Len(out) : out[j].sym = sym
         IN  <<out[i].src>> \o
             (IF RefsOf(i, "next") = {} THEN <<>>
              ELSE WalkFrom(out[i].refs[CHOOSE k \in RefsOf(i, "next") : TRUE]
                               .sym, fuel - 1))

\* the walk from the record the policy struct at position i references
MetadataWalk(i) ==
    WalkFrom(out[i].refs[CHOOSE k \in RefsOf(i, "metadata") : TRUE].sym,
             Len(out))

\* the metadata symbols are pairwise distinct and none was cut by curr[128]
MetadataSymbolsResolve ==
    /\ \A i, j \in Decls("md") : i # j => out[i].sym # out[j].sym
    /\ \A i \in Decls("ssp") :
         \A k \in RefsOf(i, "metadata") : Len(out[i].refs[k].sym) < CurrLen

----------------------------------------------------------------------------
(* C5 *)

\* C5: the reference array of a trust-store struct holds one reference per
\* slot of the store, slot by slot in reversed order, each naming the struct
\* declared earlier for that slot's certificate.
C5_ReverseCertRefs ==
    \A i \in Decls("ts") :
      LET stack == stores[out[i].src[1]].ssx509
      IN  /\ Len(out[i].refs) = Len(stack)
          /\ \A m \in 1..Len(stack) :
                \E j \in 1..(i - 1) :
                   /\ out[j].cat = "x509"
                   /\ out[j].src = <<stack[Len(stack) + 1 - m]>>
                   /\ out[j].sym = out[i].refs[m].sym


----------------------------------------------------------------------------
(* C6 *)

\* the size of one emitted entity, by its kind
EntitySize(it) ==
    CASE it.cat = "md" -> SizeofMetadata
      [] it.cat = "rbo_bo" -> SizeofU32 * it.len
      [] it.cat = "rbo" -> SizeofRetryBo
      [] it.cat = "der" -> it.len
      [] it.cat = "x509" -> SizeofX509
      [] it.cat = "ts" -> SizeofTrustStore
      [] it.cat = "ssp" -> SizeofPolicy
      [] OTHER -> 0

RECURSIVE Footprint(_)
\* the sizes of the first k emitted entities, added up
Footprint(k) == IF k = 0 THEN 0 ELSE Footprint(k - 1) + EntitySize(out[k])

----------------------------------------------------------------------------
(* C7 *)

\* C7: purify_csymbol never writes more than templen bytes; when the name is
\* shorter than templen it returns a string of the name's length that keeps
\* every character of [A-Za-z0-9] and has '_' for every other one, having
\* written length + 1 bytes; when the name is as long as templen or longer
\* the call ends the process and nothing is written.
C7_Purify ==
    /\ Len(ptemp) <= pcap
    /\ ppc = "done" =>
          /\ Len(pin) < pcap
          /\ Len(ptemp) = Len(pin) + 1
          /\ ptemp[Len(ptemp)] = "NUL"
          /\ SubSeq(ptemp, 1, Len(pin)) = Plain(pin)
          /\ SubSeq(ptemp, 1, Len(pin)) = Purify(pin)
    /\ Len(pin) >= pcap => ppc \in {"start", "aborted"} /\ ptemp = <<>>
    /\ ppc = "aborted" => Len(pin) >= pcap /\ ptemp = <<>>

\* a name one shorter than templen, with a character that is replaced
C7_Witness ==
    /\ ppc = "done"
    /\ pin = <<"-", "7">>
    /\ pcap = 3
    /\ ptemp = <<"_", "7", "NUL">>

----------------------------------------------------------------------------
(* C8 *)

\* C8 as stated: after any fatal condition the run ends with the context
\* destroyed and a non-zero exit code, and exit code 0 is returned only
\* when no fatal condition occurred.
C8_AllFatalViaCleanup ==
    /\ (fatal # "none" /\ pc \in {"exited", "aborted"}) =>
          context = "destroyed" /\ exitcode # 0
    /\ exitcode = 0 => fatal = "none"

\* C8 amended: parse failure, allocation failure, unknown protocol kind and
\* unresolved reference go to the one cleanup path, which destroys the
\* context and returns 1; a setup failure returns 1 at once, no context
\* having been created; a purification overflow aborts the process with the
\* context still live; exit code 0 is returned only when no fatal condition
\* occurred and every node's struct was emitted whole.
C8_FatalPaths ==
    /\ fatal \in {"parse", "alloc", "proto", "unresolved"} =>
          /\ pc \in {"bail", "exited"}
          /\ bad = 1
          /\ pc = "exited" => context = "destroyed" /\ exitcode = 1
    /\ fatal = "setup" =>
          pc = "exited" /\ exitcode = 1 /\ context = "none"
    /\ fatal = "purify" =>
          pc = "aborted" /\ exitcode = ExitAbort /\ context = "live"
    /\ pc = "exited" => exitcode \in {0, 1}
    /\ exitcode = 0 =>
          /\ fatal = "none"
          /\ pc = "exited"
          /\ context = "destroyed"
          /\ Cardinality({i \in Decls("ssp") : out[i].complete}) = Len(pols)

C8_Witness ==
    /\ pc = "exited"
    /\ fatal = "alloc"
    /\ context = "destroyed"
    /\ exitcode = 1
    /\ out # <<>>

----------------------------------------------------------------------------
(* C9 *)

OnAuthList(a) == \E i \in 1..Len(auths) : auths[i] = a

\* C9 as stated: every .auth reference names an auth record emitted in the
\* auth interlude (an auth record that does not resolve is fatal instead).
C9_AuthRefResolved ==
    \A i \in Decls("ssp") :
      \A k \in RefsOf(i, "auth") :
        DeclaredBefore(i, "au", out[i].refs[k].sym)

\* C9 amended: every policy struct of a node with an auth record carries
\* .auth = &_ssau_<purified name of that record>, built from the record
\* itself without looking it up in the emitted auth list; the symbol was
\* declared in the interlude whenever the record is on the auth list.
C9_AuthRefFromRecord ==
    \A i \in Decls("ssp") :
      (out[i].complete \/ fatal \in {"proto", "unresolved"}) =>
        LET a == pols[out[i].src[1]].auth
        IN  IF a = 0 THEN RefsOf(i, "auth") = {}
            ELSE /\ Cardinality(RefsOf(i, "auth")) = 1
                 /\ \A k \in RefsOf(i, "auth") :
                      /\ out[i].refs[k].sym = P_ssau \o Plain(AuthObj[a].name)
                      /\ OnAuthList(a) =>
                           \E j \in 1..(i - 1) :
                              /\ out[j].cat = "au"
                              /\ out[j].src = <<a>>
                              /\ out[j].sym = out[i].refs[k].sym

\* a run that completes with exit code 0 although a node's auth record is
\* on no auth list: its .auth names a symbol no declaration has
C9_Witness ==
    /\ Completed
    /\ \E i \in Decls("ssp") :
          /\ ~OnAuthList(pols[out[i].src[1]].auth)
          /\ \E k \in RefsOf(i, "auth") :
                ~DeclaredBefore(i, "au", out[i].refs[k].sym)

----------------------------------------------------------------------------
(* C10 *)

\* the name(s) the symbol of a declaration is built from
SourceName(it) ==
    CASE it.cat = "md" ->
           <<pols[it.src[1]].streamtype,
             pols[it.src[1]].metadata[it.src[2]]>>
      [] it.cat = "ssp" -> <<pols[it.src[1]].streamtype>>
      [] it.cat = "au" -> <<AuthObj[it.src[1]].name>>
      [] it.cat \in {"der", "x509"} -> <<CertObj[it.src[1]].vhost_name>>
      [] it.cat = "ts" -> <<stores[it.src[1]].name>>
      [] OTHER -> <<Dec(it.src[1])>>

PlainNames(it) == [m \in 1..Len(SourceName(it)) |-> Plain(SourceName(it)[m])]

\* C10 as stated: no two declarations share a symbol: declarations of
\* different kinds, or of entities whose names differ, have different
\* symbols.
C10_SymbolsDistinct ==
    \A i, j \in 1..Len(out) :
      (Completed /\ i < j /\ (out[i].cat # out[j].cat
                 \/ SourceName(out[i]) # SourceName(out[j]))) =>
        out[i].sym # out[j].sym

\* C10 amended: declarations of different kinds have different symbols, and
\* so have two distinct retry objects; two policy nodes, auth records,
\* certificates or trust stores have different symbols exactly when their
\* names differ in a character of [A-Za-z0-9] or in length, and the same
\* symbol when they differ only in other characters; two metadata records
\* of one node have different symbols when their names differ so and the
\* symbols were not cut by curr[128].
C10_SymbolsDistinctUpToPurify ==
    \A i, j \in 1..Len(out) :
      i < j =>
        /\ out[i].cat # out[j].cat => out[i].sym # out[j].sym
        /\ (out[i].cat = out[j].cat /\ out[i].cat \in {"rbo", "rbo_bo"}) =>
              out[i].sym # out[j].sym
        /\ (out[i].cat = out[j].cat
            /\ out[i].cat \in {"ssp", "au", "der", "x509", "ts"}) =>
              ((out[i].sym = out[j].sym)
                 = (PlainNames(out[i]) = PlainNames(out[j])))
        /\ (out[i].cat = "md" /\ out[j].cat = "md"
            /\ out[i].src[1] = out[j].src[1]
            /\ Len(out[i].sym) < CurrLen - 1
            /\ Len(out[j].sym) < CurrLen - 1
            /\ PlainNames(out[i]) # PlainNames(out[j])) =>
              out[i].sym # out[j].sym

\* two nodes whose names differ only in '-' against '_' get one symbol
C10_Witness ==
    /\ Completed
    /\ Len(pols) = 2
    /\ pols[1].streamtype = <<"a", "-">>
    /\ pols[2].streamtype = <<"a", "_">>
    /\ \E i, j \in Decls("ssp") :
          i < j /\ out[i].complete /\ out[j].complete
                /\ out[i].sym = out[j].sym

====
